---- MODULE Spec2Model ----
(***************************************************************************)
(* Model of loaders/loaders.py: the LoaderFactory (target extension set,   *)
(* get_loader) and the Loader variants (YamlLoader, IniLoader).            *)
(*                                                                         *)
(* Python values are tagged records: a str is [py |-> "str", v |-> chars], *)
(* a list of str is [py |-> "list", v |-> <<chars, ...>>], None is         *)
(* [py |-> "None"].  A str's characters are kept as a sequence so that     *)
(* Python's `in` on a str (substring containment) and on a list (element   *)
(* equality) are different operations in the model as they are in Python.  *)
(***************************************************************************)
EXTENDS Integers, Sequences, FiniteSets, TLC

VARIABLES factory, assigned, ret, loader, out

vars == <<factory, assigned, ret, loader, out>>

(***************************** bounds **************************************)
\* longest list of extensions handed to the factory
MaxTargets == 2
\* longest file content, in lines
MaxLines == 2

(************************* python values ***********************************)
PyStr(s) == [py |-> "str", v |-> s]
PyList(l) == [py |-> "list", v |-> l]
PyNone == [py |-> "None"]

\* truth value of a str or a list: empty is falsy
Truthy(x) == IF x.py = "None" THEN FALSE ELSE Len(x.v) > 0

\* a occurs in b as a contiguous run of characters
Substring(a, b) ==
    \E i \in 0..(Len(b) - Len(a)) : SubSeq(b, i + 1, i + Len(a)) = a

\* Python's `x in c` for a str x and a container c that is a list or a str
PyIn(x, c) ==
    IF c.py = "list" THEN \E i \in 1..Len(c.v) : c.v[i] = x
                     ELSE Substring(x, c.v)

(************************* extensions **************************************)
yml == <<".", "y", "m", "l">>
yaml == <<".", "y", "a", "m", "l">>
ini == <<".", "i", "n", "i">>
config == <<".", "c", "o", "n", "f", "i", "g">>
noloader == <<".", "n", "o", "l", "o", "a", "d", "e", "r">>
\* a proper substring of '.yml', and the empty string
dot_y == <<".", "y">>
empty == <<>>

\* the extensions callers use in the model
Exts == {yml, yaml, ini, config, noloader, dot_y, empty}

RECURSIVE SeqsUpTo(_, _)
SeqsUpTo(S, n) ==
    IF n = 0 THEN {<<>>}
    ELSE LET shorter == SeqsUpTo(S, n - 1)
         IN  shorter \cup {Append(s, x) : s \in shorter, x \in S}

\* the values a caller passes as target_file_exts: a bare str or a list
TargetArgs ==
    {PyStr(s) : s \in Exts} \cup {PyList(l) : l \in SeqsUpTo(Exts, MaxTargets)}

(************************* loader variants *********************************)
\* Loader.__subclasses__(): the direct subclasses in definition order
LoaderSubclasses == <<"YamlLoader", "IniLoader">>

SUPPORTED_EXTS(cls) ==
    IF cls = "YamlLoader" THEN PyList(<<yml, yaml>>)
    ELSE PyList(<<ini, config>>)

\* variant: the test reads one class's list whatever cls is
check_extension_supported_YamlOnly(cls, file_ext) ==
    IF PyIn(file_ext, SUPPORTED_EXTS("YamlLoader")) THEN TRUE ELSE FALSE

\* classmethod with no False branch: the fall-through returns None, which
\* the caller's `if` takes as false
check_extension_supported(cls, file_ext) ==
    IF PyIn(file_ext, SUPPORTED_EXTS(cls)) THEN TRUE ELSE FALSE

\* dicts are functions; Put is d[k] = v
EmptyMap == [x \in {} |-> x]
Put(f, k, v) == [x \in DOMAIN f \cup {k} |-> IF x = k THEN v ELSE f[x]]

\* ConfigParser(): no sections, no defaults
NewConfigParser == [sections |-> EmptyMap, defaults |-> EmptyMap]

\* cls(): YamlLoader has no __init__, IniLoader creates its parser
NewLoader(cls) ==
    IF cls = "IniLoader" THEN [py |-> "IniLoader", config |-> NewConfigParser]
    ELSE [py |-> "YamlLoader"]

(************************* LoaderFactory ***********************************)
NoFactory == [exists |-> FALSE]

Return(v) == [kind |-> "return", value |-> v]
Raise(e) == [kind |-> "raise", exc |-> e]

NoTargetFileExtensionsError == [py |-> "NoTargetFileExtensionsError"]
NoLoaderFoundError(file_ext) ==
    [py |-> "NoLoaderFoundError", file_extension |-> file_ext]

\* variant: no test for an empty argument
SetTargets_NoEmptyCheck(self, target_file_exts) ==
    [self |-> [exists |-> TRUE,
               target_file_exts |->
                   IF target_file_exts.py = "str"
                   THEN PyList(<<target_file_exts.v>>) ELSE target_file_exts],
     outcome |-> Return(PyNone)]

\* variant: a str is stored as it is
SetTargets_NoWrap(self, target_file_exts) ==
    IF ~Truthy(target_file_exts)
    THEN [self |-> self, outcome |-> Raise(NoTargetFileExtensionsError)]
    ELSE [self |-> [exists |-> TRUE, target_file_exts |-> target_file_exts],
          outcome |-> Return(PyNone)]

\* variant: the attribute is assigned before the argument is tested
SetTargets_StoreFirst(self, target_file_exts) ==
    LET stored == [exists |-> TRUE,
                   target_file_exts |->
                       IF target_file_exts.py = "str"
                       THEN PyList(<<target_file_exts.v>>)
                       ELSE target_file_exts]
    IN  IF ~Truthy(target_file_exts)
        THEN [self |-> IF self.exists THEN stored ELSE self,
              outcome |-> Raise(NoTargetFileExtensionsError)]
        ELSE [self |-> stored, outcome |-> Return(PyNone)]

\* the target_file_exts setter on the factory `self` (NoFactory while it is
\* being constructed): the factory afterwards and the outcome
SetTargets(self, target_file_exts) ==
    IF ~Truthy(target_file_exts)
    THEN [self |-> self, outcome |-> Raise(NoTargetFileExtensionsError)]
    ELSE [self |-> [exists |-> TRUE,
                    target_file_exts |->
                        IF target_file_exts.py = "str"
                        THEN PyList(<<target_file_exts.v>>)
                        ELSE target_file_exts],
          outcome |-> Return(PyNone)]

\* variant: falling off the loop returns None
RECURSIVE ScanLoaders_NoneAtEnd(_, _)
ScanLoaders_NoneAtEnd(file_ext, i) ==
    IF i > Len(LoaderSubclasses) THEN Return(PyNone)
    ELSE IF check_extension_supported(LoaderSubclasses[i], file_ext)
         THEN Return(NewLoader(LoaderSubclasses[i]))
         ELSE ScanLoaders_NoneAtEnd(file_ext, i + 1)

\* the for loop of get_loader from the i-th subclass on
RECURSIVE ScanLoaders(_, _)
ScanLoaders(file_ext, i) ==
    IF i > Len(LoaderSubclasses) THEN Raise(NoLoaderFoundError(file_ext))
    ELSE IF check_extension_supported(LoaderSubclasses[i], file_ext)
         THEN Return(NewLoader(LoaderSubclasses[i]))
         ELSE ScanLoaders(file_ext, i + 1)

\* variant: no membership test against the target set
get_loader_NoTargetCheck(self, file_ext) == ScanLoaders(file_ext, 1)

\* LoaderFactory.get_loader: the outcome (it assigns nothing)
get_loader(self, file_ext) ==
    IF ~PyIn(file_ext, self.target_file_exts) THEN Return(PyNone)
    ELSE ScanLoaders(file_ext, 1)

\* the factory state machine: construction, the setter, get_loader
InitRet == [op |-> "init", arg |-> PyNone, outcome |-> Return(PyNone)]

\* LoaderFactory(target_file_exts): __init__ runs the setter on the new
\* object; when it raises no object comes into being
Construct(target_file_exts) ==
    LET r == SetTargets(NoFactory, target_file_exts)
    IN  /\ factory' = IF r.outcome.kind = "raise" THEN factory ELSE r.self
        /\ assigned' = IF r.outcome.kind = "raise" THEN assigned
                       ELSE target_file_exts
        /\ ret' = [op |-> "construct", arg |-> target_file_exts,
                   outcome |-> r.outcome]
        /\ UNCHANGED <<loader, out>>

\* factory.target_file_exts = target_file_exts
Assign(target_file_exts) ==
    /\ factory.exists
    /\ LET r == SetTargets(factory, target_file_exts)
       IN  /\ factory' = r.self
           /\ assigned' = IF r.outcome.kind = "raise" THEN assigned
                          ELSE target_file_exts
           /\ ret' = [op |-> "assign", arg |-> target_file_exts,
                      outcome |-> r.outcome]
    /\ UNCHANGED <<loader, out>>

\* factory.get_loader(file_ext)
GetLoader(file_ext) ==
    /\ factory.exists
    /\ ret' = [op |-> "get_loader", arg |-> file_ext,
               outcome |-> get_loader(factory, file_ext)]
    /\ UNCHANGED <<factory, assigned, loader, out>>

(************************* files *******************************************)
Sect(name) == [t |-> "sect", name |-> name]
Opt(key, val) == [t |-> "opt", key |-> key, val |-> val]
\* a line that is neither a header nor key=value
Garbage == [t |-> "garbage"]

value == <<"v", "a", "l", "u", "e">>
\* '5%%': an escaped percent sign, which interpolation turns into '5%'
pct_escaped == <<"5", "%", "%">>

\* the lines files are made of: [s1], [DEFAULT], key=value, Key=5%% and a
\* line that is neither
Lines ==
    {Sect("s1"), Sect("DEFAULT"), Opt("key", value), Opt("Key", pct_escaped),
     Garbage}

\* what is found at a path: nothing that can be opened, or a text file
NoFile == [readable |-> FALSE, lines |-> <<>>]
TextFile(lines) == [readable |-> TRUE, lines |-> lines]
Files == {NoFile} \cup {TextFile(l) : l \in SeqsUpTo(Lines, MaxLines)}

(************************* configparser ************************************)
\* ConfigParser.optionxform: str.lower on the option names in use
optionxform(optname) == IF optname = "Key" THEN "key" ELSE optname

\* ConfigParser._read, one line: st is the parser (sections, defaults) with
\* the locals of _read (cursect, elements_added, e) and the error raised
ReadLine(st, line) ==
    IF line.t = "sect" THEN
        IF line.name \in DOMAIN st.sections THEN
            IF line.name \in st.addedSects
            THEN [st EXCEPT !.raised = "DuplicateSectionError"]
            ELSE [st EXCEPT !.cursect = line.name,
                            !.addedSects = @ \cup {line.name}]
        ELSE IF line.name = "DEFAULT" THEN [st EXCEPT !.cursect = "DEFAULT"]
        ELSE [st EXCEPT !.sections = Put(@, line.name, EmptyMap),
                        !.cursect = line.name,
                        !.addedSects = @ \cup {line.name}]
    ELSE IF st.cursect = "None"
    THEN [st EXCEPT !.raised = "MissingSectionHeaderError"]
    ELSE IF line.t = "opt" THEN
        LET optname == optionxform(line.key)
        IN  IF <<st.cursect, optname>> \in st.addedOpts
            THEN [st EXCEPT !.raised = "DuplicateOptionError"]
            ELSE IF st.cursect = "DEFAULT"
            THEN [st EXCEPT !.defaults = Put(@, optname, line.val),
                            !.addedOpts = @ \cup {<<st.cursect, optname>>}]
            ELSE [st EXCEPT
                    !.sections = Put(@, st.cursect,
                                     Put(@[st.cursect], optname, line.val)),
                    !.addedOpts = @ \cup {<<st.cursect, optname>>}]
    ELSE [st EXCEPT !.e = TRUE]

RECURSIVE ReadLines(_, _, _)
ReadLines(st, lines, i) ==
    IF i > Len(lines) \/ st.raised # "none" THEN st
    ELSE ReadLines(ReadLine(st, lines[i]), lines, i + 1)

\* ConfigParser._read on the lines of a source: the parser afterwards (what
\* was read before an error stays in it) and the error raised, or "none"
Read(parser, lines) ==
    LET st0 == [sections |-> parser.sections, defaults |-> parser.defaults,
                cursect |-> "None", addedSects |-> {}, addedOpts |-> {},
                e |-> FALSE, raised |-> "none"]
        st == ReadLines(st0, lines, 1)
    IN  [config |-> [sections |-> st.sections, defaults |-> st.defaults],
         err |-> IF st.raised # "none" THEN st.raised
                 ELSE IF st.e THEN "ParsingError" ELSE "none"]

\* BasicInterpolation on a value without %(name)s references: the text with
\* every '%%' replaced by '%'; a '%' followed by anything else is an error
RECURSIVE InterpolateFrom(_, _)
InterpolateFrom(v, i) ==
    IF i > Len(v) THEN [ok |-> TRUE, s |-> <<>>]
    ELSE IF v[i] # "%"
    THEN LET rest == InterpolateFrom(v, i + 1)
         IN  [ok |-> rest.ok, s |-> <<v[i]>> \o rest.s]
    ELSE IF i < Len(v) /\ v[i + 1] = "%"
    THEN LET rest == InterpolateFrom(v, i + 2)
         IN  [ok |-> rest.ok, s |-> <<"%">> \o rest.s]
    ELSE [ok |-> FALSE, s |-> <<>>]

Interpolate(v) == InterpolateFrom(v, 1)

\* ConfigParser.options(section): the section's options and the defaults
Options(parser, section) ==
    DOMAIN parser.sections[section] \cup DOMAIN parser.defaults

\* the raw value ConfigParser.get looks up: the section's before the default
RawGet(parser, section, option) ==
    IF option \in DOMAIN parser.sections[section]
    THEN parser.sections[section][option]
    ELSE parser.defaults[option]

\* the dict comprehension load returns: sections() leaves DEFAULT out
BuildDict(parser) ==
    IF \E s \in DOMAIN parser.sections : \E o \in Options(parser, s) :
           ~Interpolate(RawGet(parser, s, o)).ok
    THEN Raise("InterpolationSyntaxError")
    ELSE Return([py |-> "dict",
                 v |-> [s \in DOMAIN parser.sections |->
                          [o \in Options(parser, s) |->
                             Interpolate(RawGet(parser, s, o)).s]]])

(************************* Loader.load **************************************)
\* one call of the parser made by load, with the error it raised
Attempt(call, err) == [call |-> call, err |-> err]

HeadlessHeader == Sect("__headless__")

\* IniLoader._add_section_head: open(path) again, then read_string on the
\* header line followed by the content.  reopen is whether that second open
\* succeeds.  Gives the parser afterwards, the calls made and the outcome
\* ("none" for a normal return)
add_section_head(parser, file, reopen) ==
    IF ~reopen
    THEN [config |-> parser, attempts |-> <<>>, err |-> "OSError"]
    ELSE LET r == Read(parser, <<HeadlessHeader>> \o file.lines)
         IN  [config |-> r.config,
              attempts |-> <<Attempt("read_string", r.err)>>,
              err |-> r.err]

\* variant: the except clause catches every error of the first parse
IniLoad_CatchAll(self, file, reopen) ==
    IF ~file.readable
    THEN [self |-> self, attempts |-> <<>>, outcome |-> BuildDict(self.config)]
    ELSE
      LET r1 == Read(self.config, file.lines)
          a1 == <<Attempt("read", r1.err)>>
      IN  IF r1.err = "none"
          THEN [self |-> [self EXCEPT !.config = r1.config], attempts |-> a1,
                outcome |-> BuildDict(r1.config)]
          ELSE LET r2 == add_section_head(r1.config, file, reopen)
               IN  [self |-> [self EXCEPT !.config = r2.config],
                    attempts |-> a1 \o r2.attempts,
                    outcome |-> IF r2.err = "none" THEN BuildDict(r2.config)
                                ELSE Raise(r2.err)]

\* IniLoader.load(path) where `file` is what is at path.  ConfigParser.read
\* skips a file it cannot open without raising.  Gives the loader afterwards,
\* the parser calls made and the outcome
IniLoad(self, file, reopen) ==
    IF ~file.readable
    THEN [self |-> self, attempts |-> <<>>, outcome |-> BuildDict(self.config)]
    ELSE
      LET r1 == Read(self.config, file.lines)
          a1 == <<Attempt("read", r1.err)>>
      IN  IF r1.err = "none"
          THEN [self |-> [self EXCEPT !.config = r1.config], attempts |-> a1,
                outcome |-> BuildDict(r1.config)]
          ELSE IF r1.err = "MissingSectionHeaderError"
          THEN LET r2 == add_section_head(r1.config, file, reopen)
               IN  [self |-> [self EXCEPT !.config = r2.config],
                    attempts |-> a1 \o r2.attempts,
                    outcome |-> IF r2.err = "none" THEN BuildDict(r2.config)
                                ELSE Raise(r2.err)]
          ELSE [self |-> [self EXCEPT !.config = r1.config], attempts |-> a1,
                outcome |-> Raise(r1.err)]

\* yaml.load(stream): the data is whatever the YAML library makes of the
\* content, kept as an uninterpreted function of it
yaml_load(lines) == [py |-> "yaml", of |-> lines]

\* YamlLoader.load(path): open raises when the file cannot be opened
YamlLoad(self, file, reopen) ==
    IF ~file.readable
    THEN [self |-> self, attempts |-> <<>>, outcome |-> Raise("OSError")]
    ELSE [self |-> self, attempts |-> <<Attempt("yaml.load", "none")>>,
          outcome |-> Return(yaml_load(file.lines))]

\* loader.load(path), dispatched on the loader's class
LoadOf(self, file, reopen) ==
    IF self.py = "IniLoader" THEN IniLoad(self, file, reopen)
    ELSE YamlLoad(self, file, reopen)

\* the outcomes of the second open of load: it happens only on the repair
\* path, where it may fail although the first open succeeded
SecondOpens(self, file) ==
    IF /\ self.py = "IniLoader"
       /\ file.readable
       /\ Read(self.config, file.lines).err = "MissingSectionHeaderError"
    THEN BOOLEAN ELSE {TRUE}

NoLoader == [py |-> "None"]
InitOut == [op |-> "init"]

\* loader = cls()
CreateLoader(cls) ==
    /\ loader' = NewLoader(cls)
    /\ out' = [op |-> "create", cls |-> cls]
    /\ UNCHANGED <<factory, assigned, ret>>

\* loader.load(path); `fresh` notes whether the instance had loaded nothing
Load(file, reopen) ==
    /\ loader # NoLoader
    /\ LET r == LoadOf(loader, file, reopen)
       IN  /\ loader' = r.self
           /\ out' = [op |-> "load", cls |-> loader.py, file |-> file,
                      reopen |-> reopen, fresh |-> loader = NewLoader(loader.py),
                      attempts |-> r.attempts, outcome |-> r.outcome]
    /\ UNCHANGED <<factory, assigned, ret>>

(************************* specifications **********************************)
Init ==
    /\ factory = NoFactory
    /\ assigned = PyNone
    /\ ret = InitRet
    /\ loader = NoLoader
    /\ out = InitOut

NextFactory ==
    \/ \E a \in TargetArgs : Construct(a)
    \/ \E a \in TargetArgs : Assign(a)
    \/ \E x \in Exts : GetLoader(x)

NextLoader ==
    \/ \E cls \in {"YamlLoader", "IniLoader"} : CreateLoader(cls)
    \/ \E f \in Files : \E reopen \in SecondOpens(loader, f) : Load(f, reopen)

\* a LoaderFactory and its callers
SpecFactory == Init /\ [][NextFactory]_vars

\* a Loader instance and its callers
SpecLoader == Init /\ [][NextLoader]_vars

(************************* properties: LoaderFactory ***********************)
\* the members of the collection the factory was last given: a bare str
\* stands for the collection holding just that str
ElementsOf(a) ==
    IF a.py = "str" THEN {a.v}
    ELSE IF a.py = "list" THEN {a.v[i] : i \in 1..Len(a.v)}
    ELSE {}

\* the extensions a variant declares
Declared(cls) == ElementsOf(SUPPORTED_EXTS(cls))
Variants == {LoaderSubclasses[i] : i \in 1..Len(LoaderSubclasses)}

IsGetLoader == ret.op = "get_loader"

\* C1: get_loader(x) for a targeted extension x that some variant declares
\* returns an instance of a variant declaring x, never None and never an
\* error: a YamlLoader for '.yml'/'.yaml', an IniLoader for '.ini'/'.config'
C1_TargetedSupportedGetsLoader ==
    (/\ IsGetLoader
     /\ ret.arg \in ElementsOf(assigned)
     /\ \E cls \in Variants : ret.arg \in Declared(cls))
    => /\ ret.outcome.kind = "return"
       /\ ret.outcome.value.py \in Variants
       /\ ret.arg \in Declared(ret.outcome.value.py)
       /\ ret.arg \in {yml, yaml} => ret.outcome.value.py = "YamlLoader"
       /\ ret.arg \in {ini, config} => ret.outcome.value.py = "IniLoader"

C1_Witness ==
    /\ IsGetLoader
    /\ assigned = PyList(<<yml, ini>>)
    /\ ret.arg = ini
    /\ ret.outcome = Return(NewLoader("IniLoader"))

\* C2: get_loader(y) for an extension y outside the target set returns None
\* and does not raise, whether or not a variant declares y
C2_UntargetedGetsNone ==
    (IsGetLoader /\ ret.arg \notin ElementsOf(assigned))
    => ret.outcome = Return(PyNone)

C2_Witness ==
    /\ IsGetLoader
    /\ assigned = PyList(<<yml>>)
    /\ ret.arg = ini
    /\ ret.outcome = Return(PyNone)

\* C3: get_loader(z) for a targeted extension z that no variant declares
\* raises NoLoaderFoundError carrying z
C3_TargetedUnsupportedRaises ==
    (/\ IsGetLoader
     /\ ret.arg \in ElementsOf(assigned)
     /\ \A cls \in Variants : ret.arg \notin Declared(cls))
    => ret.outcome = Raise(NoLoaderFoundError(ret.arg))

C3_Witness ==
    /\ IsGetLoader
    /\ assigned = PyStr(noloader)
    /\ ret.arg = noloader
    /\ ret.outcome = Raise(NoLoaderFoundError(noloader))

\* C4: constructing with, or assigning, an empty list or an empty str raises
\* NoTargetFileExtensionsError, and no factory holds an empty target set
C4_EmptyTargetsRejected ==
    /\ (ret.op \in {"construct", "assign"} /\ ElementsOf(ret.arg) = {}
            /\ ret.arg.py = "list")
       => ret.outcome = Raise(NoTargetFileExtensionsError)
    /\ (ret.op \in {"construct", "assign"} /\ ret.arg = PyStr(empty))
       => ret.outcome = Raise(NoTargetFileExtensionsError)
    /\ factory.exists => Len(factory.target_file_exts.v) > 0

C4_Witness ==
    /\ ret.op = "assign"
    /\ ret.arg = PyList(<<>>)
    /\ ret.outcome = Raise(NoTargetFileExtensionsError)
    /\ factory.exists

\* C5: a factory given the bare non-empty str s stores the list [s], and
\* get_loader returns None exactly for the extensions other than s
C5_BareStringWrapped ==
    (factory.exists /\ assigned.py = "str")
    => /\ factory.target_file_exts = PyList(<<assigned.v>>)
       /\ IsGetLoader
          => (ret.outcome = Return(PyNone) <=> ret.arg # assigned.v)

C5_Witness ==
    /\ IsGetLoader
    /\ assigned = PyStr(yml)
    /\ ret.arg = dot_y
    /\ ret.outcome = Return(PyNone)

\* C9: every step leaves the stored target set equal to the (str-wrapped)
\* argument of the assignment if it was one that did not raise, and
\* unchanged if it was an assignment that raised or a get_loader call; the
\* stored set is never empty
C9_StoredSetFollowsAssignments ==
    [][/\ (ret'.op \in {"construct", "assign"}
              /\ ret'.outcome.kind = "return")
          => /\ factory'.exists
             /\ factory'.target_file_exts =
                  (IF ret'.arg.py = "str" THEN PyList(<<ret'.arg.v>>)
                   ELSE ret'.arg)
       /\ (ret'.outcome.kind = "raise" \/ ret'.op = "get_loader")
          => factory' = factory
       /\ factory'.exists => Len(factory'.target_file_exts.v) > 0]_vars

C9_Witness ==
    /\ ret.op = "assign"
    /\ ret.outcome.kind = "raise"
    /\ factory.exists
    /\ factory.target_file_exts = PyList(<<yml, ini>>)

(************************* properties: Loader.load *************************)
IsLoad == out.op = "load"
IsIniLoad == IsLoad /\ out.cls = "IniLoader"

\* C6: load on a path that cannot be opened raises a file-access error and
\* returns no mapping
C6_UnopenablePathRaises ==
    (IsLoad /\ ~out.file.readable) => out.outcome = Raise("OSError")

HasHeader(lines) == \E i \in 1..Len(lines) : lines[i].t = "sect"
OnlyOptions(lines) ==
    /\ Len(lines) > 0
    /\ \A i \in 1..Len(lines) : lines[i].t = "opt"
    /\ \A i, j \in 1..Len(lines) :
          optionxform(lines[i].key) = optionxform(lines[j].key) => i = j

\* C7: a fresh IniLoader loading a readable file of option lines without a
\* section header returns exactly the section '__headless__' holding every
\* option; loading a file that has section headers it returns a mapping
\* without a '__headless__' section
C7_HeadlessOnlyWithoutHeaders ==
    (IsIniLoad /\ out.fresh /\ out.file.readable /\ out.reopen)
    => LET lines == out.file.lines
       IN  /\ OnlyOptions(lines)
              => /\ out.outcome.kind = "return"
                 /\ DOMAIN out.outcome.value.v = {"__headless__"}
                 /\ DOMAIN out.outcome.value.v["__headless__"] =
                      {optionxform(lines[i].key) : i \in 1..Len(lines)}
                 /\ \A i \in 1..Len(lines) :
                      out.outcome.value.v["__headless__"]
                          [optionxform(lines[i].key)]
                        = Interpolate(lines[i].val).s
           /\ (HasHeader(lines) /\ out.outcome.kind = "return")
              => "__headless__" \notin DOMAIN out.outcome.value.v

\* C8: a load parses at most twice; the second parse (read_string) happens
\* only after the first failed with MissingSectionHeaderError; an error of
\* the second open or of the second parse is raised to the caller; any other
\* error of the first parse is raised with no second parse
C8_OneRepairAttempt ==
    IsIniLoad
    => LET a == out.attempts
       IN  /\ Len(a) <= 2
           /\ Len(a) = 2
              => /\ a[1] = Attempt("read", "MissingSectionHeaderError")
                 /\ a[2].call = "read_string"
                 /\ a[2].err # "none" => out.outcome = Raise(a[2].err)
           /\ Len(a) = 1
              => /\ a[1].call = "read"
                 /\ a[1].err = "MissingSectionHeaderError"
                    => (~out.reopen /\ out.outcome = Raise("OSError"))
                 /\ a[1].err \notin {"none", "MissingSectionHeaderError"}
                    => out.outcome = Raise(a[1].err)

C8_Witness ==
    /\ IsIniLoad
    /\ out.attempts = <<Attempt("read", "MissingSectionHeaderError"),
                        Attempt("read_string", "ParsingError")>>
    /\ out.outcome = Raise("ParsingError")

\* C10: the mapping load returns for a readable file is the mapping a newly
\* created loader of the same class returns for it, whatever the instance
\* loaded before
C10_LoadIndependentOfHistory ==
    (IsLoad /\ out.file.readable /\ out.outcome.kind = "return")
    => out.outcome = LoadOf(NewLoader(out.cls), out.file, out.reopen).outcome

====
